---------------------------- MODULE Spec2Model ----------------------------
(***************************************************************************)
(* bitz-cli: the batch claim coordinator (src/command/claim.rs), the check  *)
(* command (src/command/check.rs) and the process supervisor               *)
(* (src/command/batch_mining.rs, stop_mining.rs).                          *)
(*                                                                         *)
(* SpecClaim runs one invocation of `claim --sub-private <file>` and       *)
(* SpecCheck one of `check --sub-private <file>`.  SpecSupervisor runs     *)
(* launch passes (`collect --sub-private <file>`) and terminate passes     *)
(* (`stop`) against an OS process table and the logs/ directory;           *)
(* SpecLaunchLive runs the launch passes alone and fairly, SpecSpawn one   *)
(* launch pass with the main of its workloads, SpecScan and SpecStale one  *)
(* terminate pass over a directory left by earlier runs (SpecStale also    *)
(* without the process list), and SpecCommands the three commands from     *)
(* their start.                                                            *)
(***************************************************************************)
EXTENDS Integers, Sequences, FiniteSets, TLC

(***************************************************************************)
(* Bounds of the model.                                                    *)
(***************************************************************************)
\* longest credential batch
MaxBatch == 2
\* largest balance a proof or a pool membership reports
MaxBalance == 1
\* seconds by which the clock advances in one Tick
ClockQuantum == 15

(***************************************************************************)
(* Program constants.                                                      *)
(***************************************************************************)
\* tokio::time::timeout(Duration::from_secs(30), ...)
CLAIM_TIMEOUT_SECS == 30
\* ComputeBudget::Fixed(..) of the solo claim, the pool claim, the ATA creation
SOLO_CLAIM_CU == 32000
POOL_CLAIM_CU == 50000
CREATE_ATA_CU == 400000

None == <<>>
Some(x) == <<x>>

(***************************************************************************)
(* State of one `claim --sub-private` invocation.                          *)
(***************************************************************************)
VARIABLES
    file,          \* what read_to_string / serde_json make of the credential file
    private_keys,  \* the credential batch: one entry kind per key string
    args,          \* ClaimArgs: amount, to, pool_url
    cpc,           \* where batch_claim stands
    idx,           \* 1-based position of the for loop in private_keys
    proof,         \* balance of the proof fetched by batch_claim for entry idx
    member,        \* balance fetched inside the single-identity claim
    ixs,           \* instructions collected for the claim transaction
    elapsed,       \* seconds since the timeout around the claim was armed
    claim_data,    \* Vec<ClaimData>: the outcomes recorded so far
    txs,           \* what the Transaction Service was asked to send, in order
    calls,         \* entries for which Miner::claim was invoked, in order
    fetches,       \* proof and Pool lookups issued, in order
    stdout            \* lines batch_claim has printed, in order

cvars == <<file, private_keys, args, cpc, idx, proof, member, ixs, elapsed,
           claim_data, txs, calls, fetches, stdout>>

(***************************************************************************)
(* State of the process supervisor.                                        *)
(***************************************************************************)
VARIABLES
    mode,               \* "idle", or the pass that runs: "launch", "term"
    spc,                \* where the running pass stands / how the last one ended
    passes,             \* passes started so far
    procs,              \* the OS process table: pid -> [cmd, log, pass]
    dir_exists,         \* logs/ exists
    logs,               \* logs/miner_<i>.log: NoFile or its lines
    process_list_file,  \* logs/process_list.txt: NoFile or its record lines
    stop_marker,        \* logs/mining_stopped.txt: NoFile or its record
    lfile,              \* launch: what the credential file reads as
    lkeys,              \* launch: private_keys.len()
    lidx,               \* launch: idx + 1 of the for loop
    spawned,            \* launch: the children of the pass, as printed
    kill_all,           \* terminate: args.kill_all
    self,               \* terminate: the pid of the process running the pass
    process_list,       \* terminate: stdout of the process-listing command
    pids,               \* terminate (kill-all): the pids still to kill
    todo,               \* terminate (registry): the log entries still to visit
    killed_count,       \* terminate: killed_count
    kills,              \* terminate: the kill commands run by the pass
    tracked_at_start,   \* terminate: a launched workload ran when the pass began
    foreign,            \* an entry of logs/ that no pass made: NoFile or the entry
    largs               \* launch: the options of the invocation that go to a workload

svars == <<mode, spc, passes, procs, dir_exists, logs, process_list_file,
           stop_marker, lfile, lkeys, lidx, spawned, kill_all, self,
           process_list, pids, todo, killed_count, kills, tracked_at_start,
           foreign, largs>>

(***************************************************************************)
(* State of one invocation of `check --sub-private <file>` (Miner::check). *)
(***************************************************************************)
VARIABLES
    check_file,    \* "nopath", "unreadable", "badjson" or "ok"
    check_keys,    \* private_keys of Miner::check
    kpc,           \* position of the check command
    kidx,          \* index of the entry the loop of Miner::check is at
    account_data,  \* Vec<AccountData>: the rows pushed so far
    check_fetches  \* the proof lookups of Miner::check and their answers, in order

kvars == <<check_file, check_keys, kpc, kidx, account_data, check_fetches>>

vars == <<cvars, svars, kvars>>

\* what a step of the claim command leaves alone
ovars == <<svars, kvars>>

\* no check command runs
CheckIdle ==
    /\ check_file = "ok"
    /\ check_keys = <<>>
    /\ kpc = "unused"
    /\ kidx = 0
    /\ account_data = <<>>
    /\ check_fetches = <<>>

\* the process ids the OS hands out
PidPool == {2, 3, 23}

\* a file of logs/ is NoFile or File(content)
NoFile == <<>>

File(content) == <<content>>

Content(f) == f[1]

NoProc == [cmd |-> "none", log |-> 0, pass |-> 0, argv |-> <<>>, runs |-> "none"]

\* one argument of a command line: a word, or the credential of entry n
Word(w) == <<w, 0>>

KeyWord(n) == <<"key", n>>

\* what a launch pass forwards: args.cores, args.buffer_time, args.pool_url,
\* args.device_id, args.verbose of CollectArgs and the rpc url, priority_fee,
\* fee_private_key, dynamic_fee and dynamic_fee_url of the Miner
LaunchArgsSpace ==
    [cores : {Word("4")},
     buffer_time : {Word("5")},
     rpc : {Word("url")},
     pool_url : {None, Some(Word("pool"))},
     device_id : {None, Some(Word("7"))},
     priority_fee : {Some(Word("1000"))},
     fee_private_key : {None, Some(Word("feekey"))},
     verbose : BOOLEAN,
     dynamic_fee : BOOLEAN,
     dynamic_fee_url : {None, Some(Word("feeurl"))}]

\* an invocation with none of the optional settings (priority_fee has a
\* default value)
PlainLaunchArgs ==
    [cores |-> Word("4"), buffer_time |-> Word("5"), rpc |-> Word("url"),
     pool_url |-> None, device_id |-> None, priority_fee |-> Some(Word("1000")),
     fee_private_key |-> None, verbose |-> FALSE, dynamic_fee |-> FALSE,
     dynamic_fee_url |-> None]

\* A key string either fails bs58 decoding, decodes to bytes that are no
\* keypair, or is a keypair.
EntryKinds == {"ok", "bad58", "badkey"}

\* bs58::decode(..).into_vec() succeeds
Bs58Decodes(e) == e # "bad58"

\* Keypair::from_bytes(..) succeeds on the decoded bytes
KeypairFromBytes(e) == e = "ok"

Decodable(e) == Bs58Decodes(e) /\ KeypairFromBytes(e)

Batches == UNION {[1..n -> EntryKinds] : n \in 0..MaxBatch}

ArgsSpace == [amount : {None, Some(1)},
              to : {None, Some("wallet"), Some("notapubkey")},
              pool_url : {None, Some("pool")}]

\* Pubkey::from_str(&to) succeeds
PubkeyParses(to) == to = "wallet"

InitClaim ==
    /\ file \in {"unreadable", "badjson", "ok"}
    /\ private_keys \in Batches
    /\ args \in ArgsSpace
    /\ cpc = "start"
    /\ idx = 0
    /\ proof = 0
    /\ member = 0
    /\ ixs = <<>>
    /\ elapsed = 0
    /\ claim_data = <<>>
    /\ txs = <<>>
    /\ calls = <<>>
    /\ fetches = <<>>
    /\ stdout = <<>>
    \* no pass of the supervisor runs beside the claim
    /\ mode = "unused"
    /\ spc = "none"
    /\ passes = 0
    /\ procs = [p \in PidPool |-> NoProc]
    /\ dir_exists = FALSE
    /\ logs = [i \in 1..MaxBatch |-> NoFile]
    /\ process_list_file = NoFile
    /\ stop_marker = NoFile
    /\ lfile = "ok"
    /\ lkeys = 0
    /\ lidx = 0
    /\ spawned = {}
    /\ kill_all = FALSE
    /\ self = 0
    /\ process_list = <<>>
    /\ pids = <<>>
    /\ todo = {}
    /\ killed_count = 0
    /\ kills = <<>>
    /\ tracked_at_start = FALSE
    /\ foreign = NoFile
    /\ largs = PlainLaunchArgs
    /\ CheckIdle

(***************************************************************************)
(* ClaimData rows.  `amount` is the formatted balance (Some(b)) or the     *)
(* text for "unavailable" (None); `k` is the entry the row belongs to.     *)
(***************************************************************************)
ClaimData(k, amount, status, reason) ==
    [k |-> k, amount |-> amount, status |-> status, reason |-> reason]

NothingToClaimRow(k) == ClaimData(k, Some(0), "NothingToClaim", "")

\* a variant that reports a zero amount for a proof that was not fetched
QueryFailedRow_ZeroAmount(k) == ClaimData(k, Some(0), "Failed", "query")

QueryFailedRow(k) == ClaimData(k, None, "Failed", "query")

TimedOutRow(k, bal) == ClaimData(k, Some(bal), "TimedOut", "")

\* the Ok(result) arm of the timeout match: Ok(_) => success, Err(e) => failed
CompletedRow(k, bal, result) ==
    IF result = "Ok" THEN ClaimData(k, Some(bal), "Success", "")
    ELSE ClaimData(k, Some(bal), "Failed", result)

\* a lookup the invocation has issued for entry k: the proof of batch_claim,
\* the proof of claim_from_proof, the two lookups of the Pool
Fetch(k, what) == [k |-> k, what |-> what]

\* a line of standard output: its kind, the entry it is about (0: none), and
\* the rows of the table when it is the table
Printed(kind, k) == [kind |-> kind, k |-> k, rows |-> <<>>]

\* println!("{}", table) over Table::new(claim_data)
PrintedTable(rows) == [kind |-> "table", k |-> 0, rows |-> rows]

\* `continue` / end of the loop body
NextEntry ==
    /\ idx' = idx + 1
    /\ cpc' = "loop"
    /\ proof' = 0
    /\ member' = 0
    /\ ixs' = <<>>
    /\ elapsed' = 0


(***************************************************************************)
(* batch_claim, up to the timeout around the single-identity claim.        *)
(***************************************************************************)
\* read_to_string, serde_json::from_str, the is_empty check
ReadBatch ==
    /\ cpc = "start"
    /\ IF file # "ok" THEN cpc' = "fatal" /\ idx' = idx
       ELSE IF private_keys = <<>> THEN cpc' = "empty" /\ idx' = idx
       ELSE cpc' = "loop" /\ idx' = 1
    /\ stdout' = Append(stdout, Printed(IF file # "ok" THEN "error"
                                  ELSE IF private_keys = <<>> THEN "warning"
                                  ELSE "start", 0))
    /\ UNCHANGED <<ovars, file, private_keys, args, proof, member, ixs, elapsed,
                   claim_data, txs, calls, fetches>>

\* a variant that skips only on the first of the two `continue`s
SkipsEntry_Bs58Only(e) == ~Bs58Decodes(e)

\* the two `continue`s on an entry that is no keypair: a warning, no row
SkipsEntry(e) == ~Decodable(e)

SkipEntry ==
    /\ cpc = "loop"
    /\ idx <= Len(private_keys)
    /\ SkipsEntry(private_keys[idx])
    /\ stdout' = Append(stdout, Printed("bad_key", idx))
    /\ NextEntry
    /\ UNCHANGED <<ovars, file, private_keys, args, claim_data, txs, calls, fetches>>

DecodeEntry ==
    /\ cpc = "loop"
    /\ idx <= Len(private_keys)
    /\ ~SkipsEntry(private_keys[idx])
    /\ cpc' = "fetch"
    /\ UNCHANGED <<ovars, stdout, file, private_keys, args, idx, proof, member, ixs, elapsed,
                   claim_data, txs, calls, fetches>>

\* get_proof_with_authority(..).await in batch_claim: Err(e) records the
\* query failure, Ok(proof) goes on to the balance check
FetchProof ==
    /\ cpc = "fetch"
    /\ fetches' = Append(fetches, Fetch(idx, "proof"))
    /\ \/ /\ claim_data' = Append(claim_data, QueryFailedRow(idx))
          /\ NextEntry
          /\ UNCHANGED <<ovars, stdout, file, private_keys, args, txs, calls>>
       \/ \E b \in 0..MaxBalance :
            /\ proof' = b
            /\ cpc' = "fetched"
            /\ UNCHANGED <<ovars, stdout, file, private_keys, args, idx, member, ixs, elapsed,
                           claim_data, txs, calls>>

\* a variant in which the zero-balance branch is never taken
BalanceIsZero_Never(b) == b < 0

\* if proof.balance == 0
BalanceIsZero(b) == b = 0

NothingToClaim ==
    /\ cpc = "fetched"
    /\ BalanceIsZero(proof)
    /\ claim_data' = Append(claim_data, NothingToClaimRow(idx))
    /\ NextEntry
    /\ UNCHANGED <<ovars, stdout, file, private_keys, args, txs, calls, fetches>>

\* a variant that starts every claim on the solo route
Route_SoloOnly(a) == "solo_proof"

\* Miner::claim with sub_private: None: the route is chosen by pool_url
Route(a) == IF a.pool_url # None THEN "pool_address" ELSE "solo_proof"

\* tokio::time::timeout(30 s, temp_miner.claim(temp_args))
StartClaim ==
    /\ cpc = "fetched"
    /\ ~BalanceIsZero(proof)
    /\ calls' = Append(calls, idx)
    /\ elapsed' = 0
    /\ cpc' = Route(args)
    /\ UNCHANGED <<ovars, stdout, file, private_keys, args, idx, proof, member, ixs,
                   claim_data, txs, fetches>>

\* the await points of claim_from_proof / claim_from_pool / initialize_ata
InFlight == {"solo_proof", "pool_address", "pool_member", "beneficiary",
             "ata_send", "ata_confirm", "send", "confirm"}

\* a variant whose deadline is one clock step late
Expired_Late(t) == t > CLAIM_TIMEOUT_SECS

\* the deadline of the timeout has passed
Expired(t) == t >= CLAIM_TIMEOUT_SECS

\* the claim future can still make progress: the timeout polls it first
Running == cpc \in InFlight /\ ~Expired(elapsed)

Tick ==
    /\ Running
    /\ elapsed' = elapsed + ClockQuantum
    /\ UNCHANGED <<ovars, stdout, file, private_keys, args, cpc, idx, proof, member, ixs,
                   claim_data, txs, calls, fetches>>

\* a variant that attempts a timed-out claim a second time before giving up
Timeout_RetryOnce ==
    /\ cpc \in InFlight
    /\ Expired(elapsed)
    /\ IF \A j \in 1..(Len(calls) - 1) : calls[j] # idx
       THEN /\ calls' = Append(calls, idx)
            /\ elapsed' = 0
            /\ cpc' = Route(args)
            /\ UNCHANGED <<idx, proof, member, ixs, claim_data>>
       ELSE /\ claim_data' = Append(claim_data, TimedOutRow(idx, proof))
            /\ NextEntry
            /\ UNCHANGED calls
    /\ UNCHANGED <<ovars, stdout, file, private_keys, args, txs, fetches>>

\* the Err(_) arm of the timeout match: the row, the message, the next entry
Timeout ==
    /\ cpc \in InFlight
    /\ Expired(elapsed)
    /\ claim_data' = Append(claim_data, TimedOutRow(idx, proof))
    /\ stdout' = Append(stdout, Printed("timed_out", idx))
    /\ NextEntry
    /\ UNCHANGED <<ovars, file, private_keys, args, txs, calls, fetches>>

\* the Ok(result) arm: `result` is what Miner::claim returned
Complete(result) ==
    /\ claim_data' = Append(claim_data, CompletedRow(idx, proof, result))
    /\ NextEntry

\* a panic inside the claim future unwinds batch_claim and main
Panic ==
    /\ cpc' = "panicked"
    /\ UNCHANGED <<idx, proof, member, ixs, elapsed, claim_data>>

(***************************************************************************)
(* The single-identity claim: claim_from_proof (solo) and claim_from_pool. *)
(***************************************************************************)
Tx(k, kinds, amount, cu, result) ==
    [k |-> k, ixs |-> kinds, amount |-> amount, cu |-> cu, result |-> result]

\* the Transaction Service answers the transaction sent last
Resolve(r) == [txs EXCEPT ![Len(txs)].result = r]

\* claim_from_proof: get_proof_with_authority(..).await.expect(..)
SoloProof ==
    /\ cpc = "solo_proof"
    /\ Running
    /\ fetches' = Append(fetches, Fetch(idx, "solo_proof"))
    /\ \/ /\ Panic
          /\ UNCHANGED <<ovars, stdout, file, private_keys, args, txs, calls>>
       \/ \E b \in 0..MaxBalance :
            /\ member' = b
            /\ cpc' = "beneficiary"
            /\ UNCHANGED <<ovars, stdout, file, private_keys, args, idx, proof, ixs, elapsed,
                           claim_data, txs, calls>>

\* claim_from_pool: pool.get_pool_address().await?
PoolAddress ==
    /\ cpc = "pool_address"
    /\ Running
    /\ fetches' = Append(fetches, Fetch(idx, "pool_address"))
    /\ \/ /\ Complete("PoolAddress")
          /\ UNCHANGED <<ovars, stdout, file, private_keys, args, txs, calls>>
       \/ /\ cpc' = "pool_member"
          /\ UNCHANGED <<ovars, stdout, file, private_keys, args, idx, proof, member, ixs,
                         elapsed, claim_data, txs, calls>>

\* claim_from_pool: pool.get_pool_member_onchain(..).await?
PoolMember ==
    /\ cpc = "pool_member"
    /\ Running
    /\ fetches' = Append(fetches, Fetch(idx, "pool_member"))
    /\ \/ /\ Complete("PoolMember")
          /\ UNCHANGED <<ovars, stdout, file, private_keys, args, txs, calls>>
       \/ \E b \in 0..MaxBalance :
            /\ member' = b
            /\ cpc' = "beneficiary"
            /\ UNCHANGED <<ovars, stdout, file, private_keys, args, idx, proof, ixs, elapsed,
                           claim_data, txs, calls>>

\* `match args.to`: None => initialize_ata (an own transaction when the
\* account is missing); Some(to) => Pubkey::from_str(&to).expect(..), then a
\* create instruction in ixs when get_token_account(..).is_err()
Beneficiary ==
    /\ cpc = "beneficiary"
    /\ Running
    /\ IF args.to = None
       THEN /\ \E exists \in BOOLEAN :
                 cpc' = IF exists THEN "send" ELSE "ata_send"
            /\ UNCHANGED <<ovars, stdout, file, private_keys, args, idx, proof, member, ixs,
                           elapsed, claim_data, txs, calls, fetches>>
       ELSE IF ~PubkeyParses(args.to[1])
       THEN /\ Panic
            /\ UNCHANGED <<ovars, stdout, file, private_keys, args, txs, calls, fetches>>
       ELSE /\ \E missing \in BOOLEAN :
                 ixs' = IF missing THEN <<"create_ata">> ELSE <<>>
            /\ cpc' = "send"
            /\ UNCHANGED <<ovars, stdout, file, private_keys, args, idx, proof, member,
                           elapsed, claim_data, txs, calls, fetches>>

\* initialize_ata: send_and_confirm(&[ix], Fixed(400_000), false) is sent ..
AtaSend ==
    /\ cpc = "ata_send"
    /\ Running
    /\ txs' = Append(txs, Tx(idx, <<"create_ata">>, None, CREATE_ATA_CU, "pending"))
    /\ cpc' = "ata_confirm"
    /\ UNCHANGED <<ovars, stdout, file, private_keys, args, idx, proof, member, ixs, elapsed,
                   claim_data, calls, fetches>>

\* .. and answered; `.await.ok()` drops the answer
AtaConfirm ==
    /\ cpc = "ata_confirm"
    /\ Running
    /\ \E r \in {"sig", "err"} : txs' = Resolve(r)
    /\ cpc' = "send"
    /\ UNCHANGED <<ovars, stdout, file, private_keys, args, idx, proof, member, ixs, elapsed,
                   claim_data, calls, fetches>>

\* `let amount = if let Some(amount) = args.amount {..} else {<fetched>.balance}`
ClaimAmount(a, bal) ==
    IF a.amount # None THEN [src |-> "explicit", v |-> a.amount[1]]
    ELSE [src |-> "balance", v |-> bal]

\* the claim instruction and the compute ceiling of the route
ClaimIx(a) == IF a.pool_url # None THEN "claim_pool" ELSE "claim_solo"

ClaimCu(a) == IF a.pool_url # None THEN POOL_CLAIM_CU ELSE SOLO_CLAIM_CU

\* ixs.push(claim(..)); send_and_confirm(&ixs, Fixed(..), false) is sent ..
Send ==
    /\ cpc = "send"
    /\ Running
    /\ txs' = Append(txs, Tx(idx, Append(ixs, ClaimIx(args)),
                             ClaimAmount(args, member), ClaimCu(args), "pending"))
    /\ cpc' = "confirm"
    /\ UNCHANGED <<ovars, stdout, file, private_keys, args, idx, proof, member, ixs, elapsed,
                   claim_data, calls, fetches>>

\* what Miner::claim returns once the Transaction Service has answered r:
\* claim_from_pool maps the error through (`?`), claim_from_proof ends in
\* `.await.ok();` and Miner::claim returns Ok(()) after it
ClaimResult(a, r) ==
    IF a.pool_url # None
    THEN (IF r = "sig" THEN "Ok" ELSE "Transaction")
    ELSE "Ok"

\* .. and answered
Confirm ==
    /\ cpc = "confirm"
    /\ Running
    /\ \E r \in {"sig", "err"} :
         /\ txs' = Resolve(r)
         /\ Complete(ClaimResult(args, r))
    /\ UNCHANGED <<ovars, stdout, file, private_keys, args, calls, fetches>>

\* the table (or the "nothing processed" line) after the loop
Report ==
    /\ cpc = "loop"
    /\ idx > Len(private_keys)
    /\ cpc' = "done"
    /\ stdout' = Append(stdout, IF claim_data = <<>> THEN Printed("none_processed", 0)
                          ELSE PrintedTable(claim_data))
    /\ UNCHANGED <<ovars, file, private_keys, args, idx, proof, member, ixs, elapsed,
                   claim_data, txs, calls, fetches>>

NextClaim ==
    \/ ReadBatch \/ SkipEntry \/ DecodeEntry \/ FetchProof \/ NothingToClaim
    \/ StartClaim \/ Tick \/ Timeout \/ SoloProof \/ PoolAddress \/ PoolMember
    \/ Beneficiary \/ AtaSend \/ AtaConfirm \/ Send \/ Confirm \/ Report


(***************************************************************************)
(* Claims about the batch claim coordinator (checked under SpecClaim).     *)
(***************************************************************************)
\* the positions of the entries of a batch that decode to a keypair, ascending
RECURSIVE DecodableUpTo(_, _)
DecodableUpTo(keys, n) ==
    IF n = 0 THEN <<>>
    ELSE IF Decodable(keys[n]) THEN Append(DecodableUpTo(keys, n - 1), n)
    ELSE DecodableUpTo(keys, n - 1)

RowEntries == [i \in 1..Len(claim_data) |-> claim_data[i].k]

\* C1: a batch-claim pass that finishes has recorded exactly one outcome for
\* each decodable entry and none for an undecodable one, and the outcomes are
\* in the order of the entries.
C1_OneOutcomePerDecodable ==
    cpc = "done" => RowEntries = DecodableUpTo(private_keys, Len(private_keys))

\* a finished pass over a batch that mixes a decodable and an undecodable entry
C1_Witness ==
    /\ cpc = "done"
    /\ Len(claim_data) = 1
    /\ \E i \in 1..Len(private_keys) : ~Decodable(private_keys[i])

\* C2: a failure while handling one identity never stops the loop: when the
\* pass over a non-empty batch stops, it stops at the report, after the last
\* entry.
C2_LoopNeverAborted ==
    cpc \in {"done", "panicked"} =>
        cpc = "done" /\ idx = Len(private_keys) + 1

\* C3: an identity is recorded as Success only when the Transaction Service
\* returned a signature for its claim transaction.
C3_SuccessHasSignature ==
    \A i \in 1..Len(claim_data) :
        claim_data[i].status = "Success" =>
            \E j \in 1..Len(txs) :
                /\ txs[j].k = claim_data[i].k
                /\ txs[j].ixs[Len(txs[j].ixs)] \in {"claim_solo", "claim_pool"}
                /\ txs[j].result = "sig"

\* C4: a claim that has not completed when the 30 s bound expires is recorded
\* as TimedOut for its identity, and the loop moves on to the next entry.
C4_ExpiredIsTimedOut ==
    [][(cpc \in InFlight /\ elapsed >= 30) =>
         /\ Len(claim_data') = Len(claim_data) + 1
         /\ claim_data'[Len(claim_data')].k = idx
         /\ claim_data'[Len(claim_data')].status = "TimedOut"
         /\ SubSeq(claim_data', 1, Len(claim_data)) = claim_data
         /\ idx' = idx + 1
         /\ cpc' = "loop"]_vars

\* a claim in flight at the expiry of the bound, and a TimedOut row
C4_Witness ==
    \E i \in 1..Len(claim_data) : claim_data[i].status = "TimedOut"

\* C5: an identity whose fetched proof balance is 0 gets NothingToClaim, and
\* from the fetch to that row no transaction is sent and Miner::claim is not
\* invoked.
C5_ZeroBalanceNothingToClaim ==
    [][(cpc = "fetched" /\ proof = 0) =>
         /\ Len(claim_data') = Len(claim_data) + 1
         /\ claim_data'[Len(claim_data')].k = idx
         /\ claim_data'[Len(claim_data')].status = "NothingToClaim"
         /\ txs' = txs
         /\ calls' = calls]_vars

\* a NothingToClaim row of an entry that has no transaction and no claim call
C5_Witness ==
    \E i \in 1..Len(claim_data) :
        /\ claim_data[i].status = "NothingToClaim"
        /\ \A j \in 1..Len(txs) : txs[j].k # claim_data[i].k
        /\ \A j \in 1..Len(calls) : calls[j] # claim_data[i].k

(***************************************************************************)
(* Text.  A string is a sequence of one-character strings.                 *)
(***************************************************************************)
DigitChars == <<"0", "1", "2", "3", "4", "5", "6", "7", "8", "9">>

\* format!("{}", n) of an unsigned integer
RECURSIVE Digits(_)
Digits(n) ==
    IF n < 10 THEN <<DigitChars[n + 1]>>
    ELSE Append(Digits(n \div 10), DigitChars[(n % 10) + 1])

IsDigit(c) == \E d \in 1..10 : DigitChars[d] = c

DigitValue(c) == (CHOOSE d \in 1..10 : DigitChars[d] = c) - 1

\* str::parse::<u32>: Some(value) for a non-empty run of digits, else None
RECURSIVE DecimalValue(_)
DecimalValue(s) ==
    IF s = <<>> THEN 0
    ELSE 10 * DecimalValue(SubSeq(s, 1, Len(s) - 1)) + DigitValue(s[Len(s)])

ParseU32(s) ==
    IF s # <<>> /\ \A i \in 1..Len(s) : IsDigit(s[i])
    THEN Some(DecimalValue(s))
    ELSE None

\* pat occurs in s at position i
OccursAt(s, pat, i) ==
    /\ i + Len(pat) - 1 <= Len(s)
    /\ SubSeq(s, i, i + Len(pat) - 1) = pat

\* str::contains
Contains(s, pat) == \E i \in 1..Len(s) : OccursAt(s, pat, i)

\* the first position of pat in s; 0 when there is none
Find(s, pat) ==
    IF Contains(s, pat)
    THEN CHOOSE i \in 1..Len(s) :
            OccursAt(s, pat, i) /\ \A j \in 1..(i - 1) : ~OccursAt(s, pat, j)
    ELSE 0

\* s.split(pat): the list of the pieces between the occurrences of pat
RECURSIVE Split(_, _)
Split(s, pat) ==
    LET i == Find(s, pat) IN
    IF i = 0 THEN <<s>>
    ELSE <<SubSeq(s, 1, i - 1)>> \o Split(SubSeq(s, i + Len(pat), Len(s)), pat)

IsSpace(c) == c \in {" ", "\n"}

\* str::trim
RECURSIVE TrimStart(_)
TrimStart(s) ==
    IF s # <<>> /\ IsSpace(s[1]) THEN TrimStart(Tail(s)) ELSE s

RECURSIVE TrimEnd(_)
TrimEnd(s) ==
    IF s # <<>> /\ IsSpace(s[Len(s)]) THEN TrimEnd(SubSeq(s, 1, Len(s) - 1)) ELSE s

Trim(s) == TrimEnd(TrimStart(s))

\* str::split_whitespace: the non-empty runs between white space
RECURSIVE SplitWhitespace(_)
SplitWhitespace(s) ==
    LET t == TrimStart(s) IN
    IF t = <<>> THEN <<>>
    ELSE LET stops == {i \in 1..Len(t) : IsSpace(t[i])}
             cut == IF stops = {} THEN Len(t) + 1
                    ELSE CHOOSE i \in stops : \A j \in stops : i <= j
         IN <<SubSeq(t, 1, cut - 1)>> \o SplitWhitespace(SubSeq(t, cut, Len(t)))

\* str::lines
Lines(s) ==
    LET ps == Split(s, <<"\n">>) IN
    IF ps[Len(ps)] = <<>> THEN SubSeq(ps, 1, Len(ps) - 1) ELSE ps

RECURSIVE Concat(_)
Concat(ss) == IF ss = <<>> THEN <<>> ELSE Head(ss) \o Concat(Tail(ss))

(***************************************************************************)
(* The process supervisor: the OS process table, the logs/ directory, a    *)
(* launch pass (batch_collect) and a terminate pass (terminate_mining).    *)
(***************************************************************************)
\* passes (launch or terminate) run one after the other in a behaviour
MaxPasses == 2
\* lines a workload writes to its log
MaxLogLines == 1
\* processes the OS starts that no launch pass spawned
MaxOthers == 1

Alive(p) == procs[p].cmd # "none"

\* a process some launch pass spawned: it writes to logs/miner_<log>.log
IsWorkload(p) == procs[p].log > 0

FreePids == {p \in PidPool : ~Alive(p)}

\* bitz_executable; also the name of std::env::current_exe(), which a launch
\* pass spawns and which runs the terminate pass
BITZ == <<"b", "i", "t", "z">>

\* the command names of the process table
CmdText(c) ==
    CASE c = "bitz" -> BITZ
      [] c = "bitzd" -> BITZ \o <<"d">>
      [] OTHER -> <<"s", "h">>

OtherCmds == {"bitzd", "sh"}

\* the marker of a process id in a log line: U+8FDB U+7A0B "ID:" (a character
\* outside ASCII is written by its name)
PID_MARKER == <<"jin4", "cheng2", "I", "D", ":">>

\* what a workload may write to its log: a line of progress, or a line that
\* carries the marker and its own process id
LogLineKinds == {"plain", "pid"}

LineText(l) ==
    IF l.kind = "pid" THEN PID_MARKER \o <<" ">> \o Digits(l.pid)
    ELSE <<"kai1", "shi3", "wa1", "kuang4">>

InitSupervisor ==
    /\ mode = "idle"
    /\ spc = "none"
    /\ passes = 0
    /\ procs = [p \in PidPool |-> NoProc]
    /\ dir_exists = FALSE
    /\ logs = [i \in 1..MaxBatch |-> NoFile]
    /\ process_list_file = NoFile
    /\ stop_marker = NoFile
    /\ lfile = "ok"
    /\ lkeys = 0
    /\ lidx = 0
    /\ spawned = {}
    /\ kill_all = FALSE
    /\ self = 0
    /\ process_list = <<>>
    /\ pids = <<>>
    /\ todo = {}
    /\ killed_count = 0
    /\ kills = <<>>
    /\ tracked_at_start = FALSE
    /\ foreign = NoFile
    /\ largs = PlainLaunchArgs
    /\ CheckIdle
    \* no claim runs beside the passes
    /\ file = "ok"
    /\ private_keys = <<>>
    /\ args = [amount |-> None, to |-> None, pool_url |-> None]
    /\ cpc = "unused"
    /\ idx = 0
    /\ proof = 0
    /\ member = 0
    /\ ixs = <<>>
    /\ elapsed = 0
    /\ claim_data = <<>>
    /\ txs = <<>>
    /\ calls = <<>>
    /\ fetches = <<>>
    /\ stdout = <<>>

(***************************************************************************)
(* The environment: workloads write and exit, other processes come and go. *)
(***************************************************************************)
\* Workloads run beside the passes.  Their steps are interleaved where a pass
\* can tell the difference: between passes, and inside a terminate pass once
\* it has taken its listing (a launch pass reads nothing they change).
Observed ==
    \/ mode = "idle" /\ passes < MaxPasses
    \/ mode = "term" /\ spc # "check"

\* other processes are started between passes
Quiet == mode = "idle" /\ passes < MaxPasses

\* a workload writes a line to its standard output, the log it was given
WorkloadEmit ==
    \E p \in PidPool, kind \in LogLineKinds :
        /\ Observed
        /\ IsWorkload(p)
        /\ logs[procs[p].log] # NoFile
        /\ Len(Content(logs[procs[p].log])) < MaxLogLines
        /\ logs' = [logs EXCEPT ![procs[p].log] =
                        File(Append(Content(@), [kind |-> kind, pid |-> p]))]
        /\ UNCHANGED <<mode, spc, passes, procs, dir_exists, process_list_file,
                       stop_marker, lfile, lkeys, lidx, spawned, kill_all, self,
                       process_list, pids, todo, killed_count, kills,
                       tracked_at_start, foreign, largs, cvars, kvars>>

\* a workload ends on its own
WorkloadExit ==
    \E p \in PidPool :
        /\ Observed
        /\ IsWorkload(p)
        /\ procs' = [procs EXCEPT ![p] = NoProc]
        /\ UNCHANGED <<mode, spc, passes, dir_exists, logs, process_list_file,
                       stop_marker, lfile, lkeys, lidx, spawned, kill_all, self,
                       process_list, pids, todo, killed_count, kills,
                       tracked_at_start, foreign, largs, cvars, kvars>>

\* the OS starts a process that no launch pass spawned
OtherSpawn ==
    \E p \in FreePids, cmd \in OtherCmds :
        /\ Quiet
        /\ Cardinality({q \in PidPool : procs[q].cmd \in OtherCmds}) < MaxOthers
        /\ procs' = [procs EXCEPT ![p] = [cmd |-> cmd, log |-> 0, pass |-> 0,
                                           argv |-> <<>>, runs |-> "none"]]
        /\ UNCHANGED <<mode, spc, passes, dir_exists, logs, process_list_file,
                       stop_marker, lfile, lkeys, lidx, spawned, kill_all, self,
                       process_list, pids, todo, killed_count, kills,
                       tracked_at_start, foreign, largs, cvars, kvars>>

(***************************************************************************)
(* A launch pass: Miner::batch_collect.                                    *)
(***************************************************************************)
LaunchFrame == <<cvars, kvars, foreign, largs, kill_all, self, process_list, pids, todo, killed_count,
                 kills, tracked_at_start, stop_marker>>

\* `collect --sub-private <file>` is started
StartLaunch ==
    /\ mode = "idle"
    /\ passes < MaxPasses
    /\ mode' = "launch"
    /\ spc' = "read"
    /\ passes' = passes + 1
    /\ \E f \in {"unreadable", "badjson", "ok"}, n \in 0..MaxBatch :
         /\ f # "ok" => n = 0
         /\ lfile' = f
         /\ lkeys' = n
    /\ lidx' = 0
    /\ spawned' = {}
    /\ UNCHANGED <<procs, dir_exists, logs, process_list_file>>
    /\ UNCHANGED LaunchFrame

\* a variant without the is_empty check: an empty batch falls through the loop
LaunchRead_NoEmptyCheck ==
    /\ mode = "launch"
    /\ spc = "read"
    /\ IF lfile # "ok" THEN mode' = "idle" /\ spc' = "launch_panicked" /\ lidx' = lidx
       ELSE mode' = "launch" /\ spc' = "spawn" /\ lidx' = 1
    /\ UNCHANGED <<passes, procs, dir_exists, logs, process_list_file, lfile,
                   lkeys, spawned>>
    /\ UNCHANGED LaunchFrame

\* read_to_string(..).expect(..), from_str(..).expect(..), the is_empty check
LaunchRead ==
    /\ mode = "launch"
    /\ spc = "read"
    /\ IF lfile # "ok" THEN mode' = "idle" /\ spc' = "launch_panicked" /\ lidx' = lidx
       ELSE IF lkeys = 0 THEN mode' = "idle" /\ spc' = "empty" /\ lidx' = lidx
       ELSE mode' = "launch" /\ spc' = "spawn" /\ lidx' = 1
    /\ UNCHANGED <<passes, procs, dir_exists, logs, process_list_file, lfile,
                   lkeys, spawned>>
    /\ UNCHANGED LaunchFrame

(***************************************************************************)
(* The command line of a workload and what main does with it.              *)
(***************************************************************************)
\* cmd.arg(name).arg(value) when the setting is present
OptArg(name, v) == IF v # None THEN <<Word(name), v[1]>> ELSE <<>>

\* cmd.arg(name) when the switch is on
FlagArg(name, on) == IF on THEN <<Word(name)>> ELSE <<>>

\* a variant that forwards the credential file of the launch pass as well
ChildArgv_ForwardsFile(i, a) ==
    <<Word("collect"), Word("--sub-private"), Word("keys.json"),
      Word("--private-key"), KeyWord(i)>>

\* the arguments given to std::process::Command for entry i, after the
\* executable
ChildArgv(i, a) ==
    <<Word("collect"),
      Word("--cores"), a.cores,
      Word("--buffer-time"), a.buffer_time,
      Word("--private-key"), KeyWord(i),
      Word("--rpc"), a.rpc>>
    \o (IF a.pool_url # None
        THEN OptArg("--pool-url", a.pool_url) \o OptArg("--device-id", a.device_id)
        ELSE <<>>)
    \o OptArg("--priority-fee", a.priority_fee)
    \o OptArg("--fee-private-key", a.fee_private_key)
    \o FlagArg("--verbose", a.verbose)
    \o (IF a.dynamic_fee
        THEN <<Word("--dynamic-fee")>> \o OptArg("--dynamic-fee-url", a.dynamic_fee_url)
        ELSE <<>>)

\* the options that are followed by their value on the command line
ValueOptions ==
    {Word(n) : n \in {"--cores", "--buffer-time", "--private-key", "--rpc",
                      "--pool-url", "--device-id", "--priority-fee",
                      "--fee-private-key", "--dynamic-fee-url", "--sub-private"}}

\* Args::parse(): the value of option opt on a command line read from
\* position n on, None when the option is absent
RECURSIVE OptionValueFrom(_, _, _, _)
OptionValueFrom(argv, n, opt, found) ==
    IF n > Len(argv) THEN found
    ELSE IF argv[n] \in ValueOptions /\ n < Len(argv)
         THEN OptionValueFrom(argv, n + 2, opt,
                              IF argv[n] = opt THEN Some(argv[n + 1]) ELSE found)
         ELSE OptionValueFrom(argv, n + 1, opt, found)

OptionValue(argv, name) == OptionValueFrom(argv, 2, Word(name), None)

\* args.sub_private / args.private_key of the parsed command line
SubPrivate(argv) == OptionValue(argv, "--sub-private")

PrivateKey(argv) == OptionValue(argv, "--private-key")

\* Commands::Collect(args): the launch pass with a credential file, the
\* mining workload without
Dispatch(argv) ==
    IF argv = <<>> \/ argv[1] # Word("collect") THEN "other"
    ELSE IF SubPrivate(argv) # None THEN "batch_collect"
    ELSE "mine"

\* the process a successful cmd.spawn() adds to the process table
Child(i) ==
    [cmd |-> "bitz", log |-> i, pass |-> passes,
     argv |-> ChildArgv(i, largs), runs |-> "main"]

\* a variant that makes the directory in every iteration (create_dir fails
\* on a directory that exists)
DirMissing_Unchecked == TRUE

\* `if !log_dir.exists()`: the directory is made only when it is missing
DirMissing == ~dir_exists

\* a variant that waits for the child of the iteration before to end
LaunchOne_Waits ==
    /\ mode = "launch"
    /\ spc = "spawn"
    /\ lidx <= lkeys
    /\ \A c \in spawned : ~Alive(c.pid)
    /\ \/ \* create_dir_all(..).expect(..) fails
          /\ DirMissing
          /\ mode' = "idle" /\ spc' = "dir_panicked"
          /\ UNCHANGED <<dir_exists, logs, procs, spawned, lidx>>
       \/ \* File::create(log_path).expect(..) fails
          /\ dir_exists' = TRUE
          /\ mode' = "idle" /\ spc' = "log_panicked"
          /\ UNCHANGED <<logs, procs, spawned, lidx>>
       \/ \* Err(e) of cmd.spawn(): the failure is printed
          /\ dir_exists' = TRUE
          /\ logs' = [logs EXCEPT ![lidx] = File(<<>>)]
          /\ lidx' = lidx + 1
          /\ UNCHANGED <<mode, spc, procs, spawned>>
       \/ \* Ok(child): the confirmation with child.id() is printed
          \E p \in FreePids :
            /\ dir_exists' = TRUE
            /\ logs' = [logs EXCEPT ![lidx] = File(<<>>)]
            /\ procs' = [procs EXCEPT ![p] = Child(lidx)]
            /\ spawned' = spawned \cup {[idx |-> lidx, pid |-> p, pass |-> passes]}
            /\ lidx' = lidx + 1
            /\ UNCHANGED <<mode, spc>>
    /\ UNCHANGED <<passes, process_list_file, lfile, lkeys>>
    /\ UNCHANGED LaunchFrame

\* one iteration of the for loop: the logs directory, the log file of the
\* entry (File::create truncates), the spawn
LaunchOne ==
    /\ mode = "launch"
    /\ spc = "spawn"
    /\ lidx <= lkeys
    /\ \/ \* create_dir_all(..).expect(..) fails
          /\ DirMissing
          /\ mode' = "idle" /\ spc' = "dir_panicked"
          /\ UNCHANGED <<dir_exists, logs, procs, spawned, lidx>>
       \/ \* File::create(log_path).expect(..) fails
          /\ dir_exists' = TRUE
          /\ mode' = "idle" /\ spc' = "log_panicked"
          /\ UNCHANGED <<logs, procs, spawned, lidx>>
       \/ \* Err(e) of cmd.spawn(): the failure is printed
          /\ dir_exists' = TRUE
          /\ logs' = [logs EXCEPT ![lidx] = File(<<>>)]
          /\ lidx' = lidx + 1
          /\ UNCHANGED <<mode, spc, procs, spawned>>
       \/ \* Ok(child): the confirmation with child.id() is printed
          \E p \in FreePids :
            /\ dir_exists' = TRUE
            /\ logs' = [logs EXCEPT ![lidx] = File(<<>>)]
            /\ procs' = [procs EXCEPT ![p] = Child(lidx)]
            /\ spawned' = spawned \cup {[idx |-> lidx, pid |-> p, pass |-> passes]}
            /\ lidx' = lidx + 1
            /\ UNCHANGED <<mode, spc>>
    /\ UNCHANGED <<passes, process_list_file, lfile, lkeys>>
    /\ UNCHANGED LaunchFrame

\* the record lines written to process_list.txt after the heading: one for
\* each element of private_keys
ProcessListLines == [i \in 1..lkeys |-> i]

\* File::create("logs/process_list.txt").expect(..) and the writeln!s
LaunchWriteList ==
    /\ mode = "launch"
    /\ spc = "spawn"
    /\ lidx > lkeys
    /\ mode' = "idle"
    /\ \/ /\ spc' = "list_panicked"
          /\ UNCHANGED process_list_file
       \/ /\ spc' = "launched"
          /\ process_list_file' = File(ProcessListLines)
    /\ UNCHANGED <<passes, procs, dir_exists, logs, lfile, lkeys, lidx, spawned>>
    /\ UNCHANGED LaunchFrame

(***************************************************************************)
(* A terminate pass: Miner::terminate_mining.                              *)
(***************************************************************************)
\* the elements of a set of numbers in ascending order
RECURSIVE Ascending(_)
Ascending(S) ==
    IF S = {} THEN <<>>
    ELSE LET m == CHOOSE x \in S : \A y \in S : x <= y
         IN <<m>> \o Ascending(S \ {m})

PS_HEADING == <<"P", "I", "D", " ", "T", "T", "Y", " ", "T", "I", "M", "E",
                " ", "C", "M", "D", "\n">>

\* one line of `ps -e`: PID TTY TIME CMD
PsLine(p, cmd) ==
    <<" ">> \o Digits(p) \o <<" ", "?", " ", "0", "0", ":", "0", "0", ":", "0",
    "0", " ">> \o CmdText(cmd) \o <<"\n">>

\* stdout of `ps -e` for a process table
PsText(pr) ==
    LET alive == Ascending({p \in PidPool : pr[p].cmd # "none"})
    IN PS_HEADING \o Concat([i \in 1..Len(alive) |-> PsLine(alive[i], pr[alive[i]].cmd)])

\* stdout of `ps -e | grep bitz`: the lines of the listing that contain bitz
GrepText(text, pat) ==
    LET ls == Lines(text)
        hit == SelectSeq(ls, LAMBDA l : Contains(l, pat))
    IN Concat([i \in 1..Len(hit) |-> hit[i] \o <<"\n">>])

\* the loop over output_str.lines() of the kill-all branch (Linux/Mac): a line
\* that contains bitz and has more than one field gives its first field, when
\* that parses as u32
LinePid(line) ==
    LET parts == SplitWhitespace(line) IN
    IF Contains(line, BITZ) /\ Len(parts) > 1 THEN ParseU32(parts[1]) ELSE None

ParsePids(text) ==
    LET ls == Lines(text)
        hit == SelectSeq(ls, LAMBDA l : LinePid(l) # None)
    IN [i \in 1..Len(hit) |-> LinePid(hit[i])[1]]

\* the scan of one log line of the registry branch: the text after the first
\* marker, trimmed, up to the first ",", trimmed, parsed as u32
MarkerPid(line) ==
    IF Contains(line, PID_MARKER)
    THEN LET parts == Split(line, PID_MARKER) IN
         IF Len(parts) > 1
         THEN ParseU32(Trim(Split(Trim(parts[2]), <<",">>)[1]))
         ELSE None
    ELSE None

\* the for loop over reader.lines(): the pid of the first line that yields
\* one (`break`), None when no line does
RECURSIVE FirstPid(_)
FirstPid(ls) ==
    IF ls = <<>> THEN None
    ELSE IF MarkerPid(LineText(Head(ls))) # None THEN MarkerPid(LineText(Head(ls)))
    ELSE FirstPid(Tail(ls))

\* let running = process_list.contains(&format!("{}", pid))
StillRunning(listing, pid) == Contains(listing, Digits(pid))

\* `match status { Ok(_) => killed_count += 1, Err(e) => .. }`: ran says that
\* the kill command could be run at all, whatever its exit status
CountKill(count, ran) == IF ran THEN count + 1 ELSE count

\* the pass returns or dies: its process leaves the process table
EndPass(how, pr) ==
    /\ mode' = "idle"
    /\ spc' = how
    /\ procs' = [pr EXCEPT ![self] = NoProc]

\* `kill -9 pid` through sh: the process with that pid, if any, dies; a pass
\* that kills its own process ends there.  src is where the pid was read:
\* Some(entry of logs/) in the registry branch, None for the kill-all listing
Kill(pid, ran, next, src) ==
    LET hit == ran /\ pid \in PidPool /\ Alive(pid)
        after == IF hit THEN [procs EXCEPT ![pid] = NoProc] ELSE procs
    IN /\ kills' = IF ran
                   THEN Append(kills, [pid |-> pid, src |-> src,
                                       victim |-> IF hit THEN procs[pid].cmd ELSE "none",
                                       vlog |-> IF hit THEN procs[pid].log ELSE 0])
                   ELSE kills
       /\ IF ran /\ pid = self
          THEN /\ EndPass("killed_self", after)
               /\ UNCHANGED killed_count
          ELSE /\ killed_count' = CountKill(killed_count, ran)
               /\ procs' = after
               /\ mode' = mode
               /\ spc' = next

TermFrame == <<cvars, kvars, foreign, largs, dir_exists, logs, process_list_file, lfile, lkeys, lidx,
               spawned>>

\* `stop` or `stop --kill-all` is started, as a process of its own
StartTerminate ==
    /\ mode = "idle"
    /\ passes < MaxPasses
    /\ mode' = "term"
    /\ spc' = "check"
    /\ passes' = passes + 1
    /\ \E p \in FreePids :
         /\ self' = p
         /\ procs' = [procs EXCEPT ![p] = [cmd |-> "bitz", log |-> 0, pass |-> 0,
                                            argv |-> <<>>, runs |-> "none"]]
    /\ kill_all' \in BOOLEAN
    /\ process_list' = <<>>
    /\ pids' = <<>>
    /\ todo' = {}
    /\ killed_count' = 0
    /\ kills' = <<>>
    /\ tracked_at_start' = (\E p \in PidPool : IsWorkload(p))
    /\ UNCHANGED stop_marker
    /\ UNCHANGED TermFrame

\* "miner_" and "log" of the naming of the logs
MINER_PREFIX == <<"m", "i", "n", "e", "r", "_">>

LOG_EXT == <<"l", "o", "g">>

\* format!("logs/miner_{}.log", idx + 1), without the directory
LogName(i) == MINER_PREFIX \o Digits(i) \o <<".">> \o LOG_EXT

PROCESS_LIST_NAME == <<"p", "r", "o", "c", "e", "s", "s", "_", "l", "i", "s", "t",
                       ".", "t", "x", "t">>

STOP_MARKER_NAME == <<"m", "i", "n", "i", "n", "g", "_", "s", "t", "o", "p", "p",
                      "e", "d", ".", "t", "x", "t">>

\* Path::extension: what follows the last "." of a name that has one inside
Extension(name) ==
    LET pieces == Split(name, <<".">>) IN
    IF Len(pieces) > 1 /\ pieces[1] # <<>> THEN Some(pieces[Len(pieces)]) ELSE None

\* str::starts_with
StartsWith(s, pat) == OccursAt(s, pat, 1)

DirEntry(name, is_file, lines) == [name |-> name, is_file |-> is_file, lines |-> lines]

\* read_dir(logs/): the logs by their index, the foreign entry as 0, the
\* process list and the stop marker after the logs
DirIds ==
    {i \in 1..MaxBatch : logs[i] # NoFile}
        \cup (IF foreign # NoFile THEN {0} ELSE {})
        \cup (IF process_list_file # NoFile THEN {MaxBatch + 1} ELSE {})
        \cup (IF stop_marker # NoFile THEN {MaxBatch + 2} ELSE {})

Entry(i) ==
    IF i = 0 THEN Content(foreign)
    ELSE IF i = MaxBatch + 1 THEN DirEntry(PROCESS_LIST_NAME, TRUE, <<>>)
    ELSE IF i = MaxBatch + 2 THEN DirEntry(STOP_MARKER_NAME, TRUE, <<>>)
    ELSE DirEntry(LogName(i), TRUE, Content(logs[i]))

\* a variant that takes every .log file, whatever its name starts with
ScansEntry_AnyLog(e) == e.is_file /\ Extension(e.name) = Some(LOG_EXT)

\* path.is_file() && extension == "log" && file_name.starts_with("miner_")
ScansEntry(e) ==
    /\ e.is_file
    /\ Extension(e.name) = Some(LOG_EXT)
    /\ StartsWith(e.name, MINER_PREFIX)

\* the entries of logs/ whose lines the registry branch reads
LogEntries == {i \in DirIds : ScansEntry(Entry(i))}

\* a variant that goes on without looking for process_list.txt
ListMissing_Unchecked == FALSE

\* !process_list_path.exists()
ListMissing == process_list_file = NoFile

\* the process_list.txt check, then the process-listing command: its stdout,
\* nothing when the command fails, a panic (`expect`) when sh cannot be run
TermCheck ==
    /\ mode = "term"
    /\ spc = "check"
    /\ IF ListMissing
       THEN /\ EndPass("nolist", procs)
            /\ UNCHANGED <<process_list, todo>>
       ELSE \/ /\ EndPass("term_panicked", procs)
               /\ UNCHANGED <<process_list, todo>>
            \/ /\ \E out \in {PsText(procs), <<>>} : process_list' = out
               /\ mode' = mode
               /\ procs' = procs
               /\ spc' = IF kill_all THEN "find" ELSE "scan"
               /\ todo' = IF kill_all THEN {} ELSE LogEntries
    /\ UNCHANGED <<passes, kill_all, self, pids, killed_count, kills,
                   tracked_at_start, stop_marker>>
    /\ UNCHANGED TermFrame

\* kill-all: `ps -e | grep bitz` and the parse of its lines into pids
TermFind ==
    /\ mode = "term"
    /\ spc = "find"
    /\ \/ /\ EndPass("term_panicked", procs)
          /\ UNCHANGED pids
       \/ /\ \E out \in {GrepText(PsText(procs), BITZ), <<>>} :
                pids' = ParsePids(out)
          /\ spc' = "killall"
          /\ UNCHANGED <<mode, procs>>
    /\ UNCHANGED <<passes, kill_all, self, process_list, todo, killed_count,
                   kills, tracked_at_start, stop_marker>>
    /\ UNCHANGED TermFrame

\* kill-all: one iteration of `for pid in pids`
TermKillNext ==
    /\ mode = "term"
    /\ spc = "killall"
    /\ pids # <<>>
    /\ \E ran \in BOOLEAN : Kill(Head(pids), ran, "killall", None)
    /\ pids' = Tail(pids)
    /\ UNCHANGED <<passes, kill_all, self, process_list, todo,
                   tracked_at_start, stop_marker>>
    /\ UNCHANGED TermFrame

\* registry: one entry of read_dir: the log is opened (or not) and scanned;
\* the pid it yields is killed when the listing makes it running
TermScanNext ==
    /\ mode = "term"
    /\ spc = "scan"
    /\ \E i \in todo :
         /\ todo' = todo \ {i}
         /\ \/ \* File::open fails
               UNCHANGED <<mode, spc, procs, killed_count, kills>>
            \/ LET found == FirstPid(Entry(i).lines) IN
               IF found # None /\ StillRunning(process_list, found[1])
               THEN \E ran \in BOOLEAN : Kill(found[1], ran, "scan", Some(i))
               ELSE UNCHANGED <<mode, spc, procs, killed_count, kills>>
    /\ UNCHANGED <<passes, kill_all, self, process_list, pids,
                   tracked_at_start, stop_marker>>
    /\ UNCHANGED TermFrame

\* the record written to mining_stopped.txt
StopRecord == [count |-> killed_count, pass |-> passes]

\* File::create(stop_marker) and writeln!, skipped when create fails; the
\* summary; Ok(())
TermFinish ==
    /\ mode = "term"
    /\ \/ spc = "killall" /\ pids = <<>>
       \/ spc = "scan" /\ todo = {}
    /\ \E created \in BOOLEAN :
         stop_marker' = IF created THEN File(StopRecord) ELSE stop_marker
    /\ EndPass("finished", procs)
    /\ UNCHANGED <<passes, kill_all, self, process_list, pids, todo,
                   killed_count, kills, tracked_at_start>>
    /\ UNCHANGED TermFrame


NextSupervisor ==
    \/ StartLaunch \/ LaunchRead \/ LaunchOne \/ LaunchWriteList
    \/ StartTerminate \/ TermCheck \/ TermFind \/ TermKillNext \/ TermScanNext
    \/ TermFinish \/ WorkloadEmit \/ WorkloadExit \/ OtherSpawn

SpecSupervisor ==
    /\ InitSupervisor
    /\ [][NextSupervisor]_vars


SpecClaim ==
    /\ InitClaim
    /\ [][NextClaim]_vars

(***************************************************************************)
(* Claims about the process supervisor (checked under SpecSupervisor).     *)
(***************************************************************************)
\* the child of a launch pass, as printed by it, is still that process
StillRuns(s) ==
    /\ procs[s.pid].cmd = "bitz"
    /\ procs[s.pid].log = s.idx
    /\ procs[s.pid].pass = s.pass

\* a terminate pass has returned from the end of terminate_mining
TermReturned == mode = "idle" /\ spc = "finished"

\* C6: a registry-scoped terminate pass after a launch pass finds, from the
\* files of logs/ alone, every workload the launch pass started that still
\* runs, and kills it: when the pass has returned, none of them runs.
C6_LaunchedAreDiscovered ==
    (TermReturned /\ ~kill_all) => \A s \in spawned : ~StillRuns(s)

\* the process ids of a listing: the first field of each line, when a number
ListingPids(text) ==
    LET ls == Lines(text)
        ok(l) == SplitWhitespace(l) # <<>> /\ ParseU32(SplitWhitespace(l)[1]) # None
    IN {ParseU32(SplitWhitespace(ls[i])[1])[1] : i \in {j \in 1..Len(ls) : ok(ls[j])}}

\* C7: registry-scoped termination runs kill only for a pid that is the
\* process id of a process of the listing it took.
C7_KillOnlyListed ==
    (mode = "term" /\ ~kill_all) =>
        \A i \in 1..Len(kills) : kills[i].pid \in ListingPids(process_list)

\* C8: kill-all termination signals only processes whose command name is the
\* name of the workload executable.
C8_KillAllOnlyBitz ==
    kill_all => \A i \in 1..Len(kills) : kills[i].victim \in {"none", "bitz"}

\* a terminate pass has ended, in whatever way
TermEnded ==
    mode = "idle" /\ spc \in {"nolist", "finished", "killed_self", "term_panicked"}

\* C9: a terminate pass run while no tracked workload runs records kill count
\* 0 and writes the stop marker.
C9_IdleTerminateWritesZero ==
    (TermEnded /\ ~tracked_at_start) =>
        stop_marker = File([count |-> 0, pass |-> passes])

\* C10: a launch pass starts at most N workloads, and when it returns
\* process_list.txt has exactly one record line per workload it spawned.
C10_ListMatchesSpawned ==
    (mode = "idle" /\ spc = "launched") =>
        /\ Cardinality(spawned) <= lkeys
        /\ process_list_file # NoFile
        /\ Len(Content(process_list_file)) = Cardinality(spawned)
        /\ \A i \in 1..Len(Content(process_list_file)) :
             \E s \in spawned : s.idx = Content(process_list_file)[i]


\* a launch pass has ended, in whatever way
LaunchEnded ==
    mode = "idle" /\ spc \in {"launch_panicked", "empty", "dir_panicked",
                              "log_panicked", "list_panicked", "launched"}

\* the entries of the batch whose workload the pass failed to launch: those
\* it went past without a child, and the one whose log could not be created
LaunchFailed ==
    {i \in 1..(lidx - 1) : \A s \in spawned : s.idx # i}
        \cup (IF spc = "log_panicked" THEN {lidx} ELSE {})

\* C11: a launch pass in which the launch of an identity failed (spawn error,
\* or log file not created) goes on: it attempts every entry of the batch and
\* writes process_list.txt.
C11_LaunchFailureContinues ==
    (mode = "idle" /\ spc \in {"launched", "log_panicked"} /\ LaunchFailed # {}) =>
        /\ spc = "launched"
        /\ lidx = lkeys + 1
        /\ process_list_file = File(ProcessListLines)

(***************************************************************************)
(* More claims about the batch claim coordinator (under SpecClaim).        *)
(***************************************************************************)
\* C12: Miner::claim is invoked at most once for an entry of the batch, in
\* the order of the entries, and an entry whose outcome is recorded is behind
\* the loop position: it is not attempted or visited again.
C12_NoRetry ==
    /\ \A i, j \in 1..Len(calls) : i < j => calls[i] < calls[j]
    /\ \A i \in 1..Len(calls) : calls[i] <= idx
    /\ \A i \in 1..Len(claim_data) : claim_data[i].k < idx

\* a finished pass in which a claim that was attempted once failed or timed out
C12_Witness ==
    /\ cpc = "done"
    /\ \E i \in 1..Len(claim_data) :
         /\ claim_data[i].status \in {"Failed", "TimedOut"}
         /\ \E j \in 1..Len(calls) : calls[j] = claim_data[i].k
         /\ claim_data[i].k < Len(private_keys)

\* SpecClaim with the scheduling the runtime gives: the steps of batch_claim
\* itself are taken, a proof fetch of batch_claim returns, the timer runs and
\* fires.  The lookups and transactions inside a claim may hang for ever.
SpecClaimLive ==
    /\ InitClaim
    /\ [][NextClaim]_vars
    /\ WF_vars(ReadBatch) /\ WF_vars(SkipEntry) /\ WF_vars(DecodeEntry)
    /\ WF_vars(FetchProof) /\ WF_vars(NothingToClaim) /\ WF_vars(StartClaim)
    /\ WF_vars(Tick) /\ WF_vars(Timeout) /\ WF_vars(Report)

\* C13: with every proof fetch of the loop returning, a pass that has entered
\* the loop over its batch reaches the report, whatever the claims do.
C13_PassFinishes == (cpc = "loop") ~> (cpc = "done")

(***************************************************************************)
(* More claims about the process supervisor (under SpecSupervisor).        *)
(***************************************************************************)
\* the kill commands of the pass that ended the life of a process
RealKills == {i \in 1..Len(kills) : kills[i].victim # "none"}

\* C14: the kill count a terminate pass writes to mining_stopped.txt is the
\* number of processes its kill commands killed.
C14_CountIsKilled ==
    (TermReturned /\ stop_marker # NoFile /\ Content(stop_marker).pass = passes) =>
        Content(stop_marker).count = Cardinality(RealKills)

\* C15: a terminate pass that has taken its listing is not cut short by a
\* failing listing or kill command: it ends at the end of terminate_mining,
\* with every pid and every log handled.
C15_SweepNotAborted ==
    (mode = "idle" /\ spc \in {"finished", "term_panicked"}) =>
        /\ spc = "finished"
        /\ pids = <<>>
        /\ todo = {}

(***************************************************************************)
(* The check command: Miner::check.                                        *)
(***************************************************************************)
\* largest last_hash_at a proof reports
MaxHashAt == 1

InitCheck ==
    /\ check_file \in {"nopath", "unreadable", "badjson", "ok"}
    /\ check_keys \in Batches
    /\ kpc = "start"
    /\ kidx = 0
    /\ account_data = <<>>
    /\ check_fetches = <<>>
    \* no claim and no pass of the supervisor runs beside the check
    /\ file = "ok"
    /\ private_keys = <<>>
    /\ args = [amount |-> None, to |-> None, pool_url |-> None]
    /\ cpc = "unused"
    /\ idx = 0
    /\ proof = 0
    /\ member = 0
    /\ ixs = <<>>
    /\ elapsed = 0
    /\ claim_data = <<>>
    /\ txs = <<>>
    /\ calls = <<>>
    /\ fetches = <<>>
    /\ stdout = <<>>
    /\ mode = "unused"
    /\ spc = "none"
    /\ passes = 0
    /\ procs = [p \in PidPool |-> NoProc]
    /\ dir_exists = FALSE
    /\ logs = [i \in 1..MaxBatch |-> NoFile]
    /\ process_list_file = NoFile
    /\ stop_marker = NoFile
    /\ lfile = "ok"
    /\ lkeys = 0
    /\ lidx = 0
    /\ spawned = {}
    /\ kill_all = FALSE
    /\ self = 0
    /\ process_list = <<>>
    /\ pids = <<>>
    /\ todo = {}
    /\ killed_count = 0
    /\ kills = <<>>
    /\ tracked_at_start = FALSE
    /\ foreign = NoFile
    /\ largs = PlainLaunchArgs

\* a variant that formats every last_hash_at as a time, the epoch included
LastHashAt_AlwaysTime(t) == [kind |-> "time", t |-> t]

\* the last_hash_at column: the formatted time, or the text for "never mined"
LastHashAt(t) ==
    IF t > 0 THEN [kind |-> "time", t |-> t] ELSE [kind |-> "never", t |-> 0]

AccountData(k, balance, last_hash_at) ==
    [k |-> k, balance |-> balance, last_hash_at |-> last_hash_at]

\* the Ok(proof) arm
ProofRow(k, b, t) == AccountData(k, Some(b), LastHashAt(t))

\* the Err(e) arm: both columns carry the text for "unavailable"
UnavailableRow(k) == AccountData(k, None, [kind |-> "unavailable", t |-> 0])

\* the path, read_to_string, serde_json::from_str, the is_empty check
CheckRead ==
    /\ kpc = "start"
    /\ IF check_file # "ok" THEN kpc' = "fatal" /\ kidx' = kidx
       ELSE IF check_keys = <<>> THEN kpc' = "empty" /\ kidx' = kidx
       ELSE kpc' = "loop" /\ kidx' = 1
    /\ UNCHANGED <<cvars, svars, check_file, check_keys, account_data, check_fetches>>

\* the two `continue`s on an entry that is no keypair
CheckSkip ==
    /\ kpc = "loop"
    /\ kidx <= Len(check_keys)
    /\ ~Decodable(check_keys[kidx])
    /\ kidx' = kidx + 1
    /\ UNCHANGED <<cvars, svars, check_file, check_keys, kpc, account_data,
                   check_fetches>>

\* a proof lookup for entry k and its answer: None for Err(e), Some(proof)
Fetched(k, got) == [k |-> k, got |-> got]

\* get_proof_with_authority(..).await and the row of either arm
CheckFetch ==
    /\ kpc = "loop"
    /\ kidx <= Len(check_keys)
    /\ Decodable(check_keys[kidx])
    /\ \/ /\ check_fetches' = Append(check_fetches, Fetched(kidx, None))
          /\ account_data' = Append(account_data, UnavailableRow(kidx))
       \/ \E b \in 0..MaxBalance, t \in 0..MaxHashAt :
            /\ check_fetches' = Append(check_fetches,
                    Fetched(kidx, Some([balance |-> b, last_hash_at |-> t])))
            /\ account_data' = Append(account_data, ProofRow(kidx, b, t))
    /\ kidx' = kidx + 1
    /\ UNCHANGED <<cvars, svars, check_file, check_keys, kpc>>

\* after the loop: the table, or the line that nothing could be queried
CheckReport ==
    /\ kpc = "loop"
    /\ kidx > Len(check_keys)
    /\ kpc' = IF account_data = <<>> THEN "notable" ELSE "done"
    /\ UNCHANGED <<cvars, svars, check_file, check_keys, kidx, account_data,
                   check_fetches>>

NextCheck == CheckRead \/ CheckSkip \/ CheckFetch \/ CheckReport

SpecCheck ==
    /\ InitCheck
    /\ [][NextCheck]_vars

(***************************************************************************)
(* The three batch commands side by side: a behaviour is one invocation of *)
(* claim, one invocation of check, or launch passes one after the other.   *)
(***************************************************************************)
InitCommands == InitClaim \/ InitSupervisor \/ InitCheck

NextLaunch ==
    StartLaunch \/ LaunchRead \/ LaunchOne \/ LaunchWriteList \/ WorkloadExit

NextCommands == NextClaim \/ NextLaunch \/ NextCheck

SpecCommands ==
    /\ InitCommands
    /\ [][NextCommands]_vars

\* a workload that the running (or last) launch pass spawned
SpawnedInPass(p) == IsWorkload(p) /\ procs[p].pass = passes

\* C16: a command that stops on a batch-level error (credential file not
\* read, not JSON, logs/ not created) has done no per-identity work: no
\* workload spawned, no proof fetched, no claim attempted, nothing sent.
C16_FatalBeforeWork ==
    /\ (mode = "idle" /\ spc \in {"launch_panicked", "dir_panicked"}) =>
          /\ spawned = {}
          /\ \A p \in PidPool : ~SpawnedInPass(p)
    /\ cpc = "fatal" =>
          /\ fetches = <<>> /\ calls = <<>> /\ txs = <<>> /\ claim_data = <<>>
    /\ kpc = "fatal" =>
          /\ check_fetches = <<>> /\ account_data = <<>>

\* a launch pass over a full batch that died making logs/
C16_Witness ==
    /\ mode = "idle"
    /\ spc = "dir_panicked"
    /\ lkeys = MaxBatch

\* the artifacts of logs/ and the process table
Registry == <<procs, dir_exists, logs, process_list_file, stop_marker>>

\* C17: an empty credential array makes launch, batch claim and check return
\* at once, successfully: nothing is spawned, no file of logs/ is made or
\* changed, no proof is fetched, nothing is sent and no row is recorded.
C17_EmptyBatchNoOp ==
    [][/\ (mode = "launch" /\ spc = "read" /\ lfile = "ok" /\ lkeys = 0) =>
             /\ mode' = "idle" /\ spc' = "empty"
             /\ spawned' = {}
             /\ UNCHANGED Registry
       /\ (mode = "idle" /\ mode' = "launch") => UNCHANGED Registry
       /\ (cpc = "start" /\ file = "ok" /\ private_keys = <<>>) =>
             /\ cpc' = "empty"
             /\ UNCHANGED <<claim_data, txs, calls, fetches>>
       /\ cpc = "empty" => UNCHANGED cvars
       /\ (kpc = "start" /\ check_file = "ok" /\ check_keys = <<>>) =>
             /\ kpc' = "empty"
             /\ UNCHANGED <<account_data, check_fetches>>
       /\ kpc = "empty" => UNCHANGED kvars]_vars

\* a launch pass over an empty batch has returned, after a pass that had
\* written the artifacts of a workload
C17_Witness ==
    /\ mode = "idle"
    /\ spc = "empty"
    /\ process_list_file # NoFile
    /\ \E p \in PidPool : IsWorkload(p)

(***************************************************************************)
(* Claims about the rows and the transactions of batch claim (SpecClaim).  *)
(***************************************************************************)
\* C18: when the proof fetch of the loop fails for an entry, one Failed row
\* without an amount is recorded for it, Miner::claim is not invoked and no
\* transaction is sent for it, and the loop takes the next entry.
C18_FetchFailureRow ==
    [][(cpc = "fetch" /\ cpc' # "fetched") =>
         /\ Len(claim_data') = Len(claim_data) + 1
         /\ SubSeq(claim_data', 1, Len(claim_data)) = claim_data
         /\ claim_data'[Len(claim_data')].k = idx
         /\ claim_data'[Len(claim_data')].status = "Failed"
         /\ claim_data'[Len(claim_data')].amount = None
         /\ txs' = txs
         /\ calls' = calls
         /\ \A j \in 1..Len(txs) : txs[j].k # idx
         /\ \A j \in 1..Len(calls) : calls[j] # idx
         /\ idx' = idx + 1
         /\ cpc' = "loop"]_vars

\* a finished pass whose first entry failed at the fetch and whose second
\* entry was fetched
C18_Witness ==
    /\ cpc = "done"
    /\ Len(claim_data) = 2
    /\ claim_data[1] = QueryFailedRow(1)
    /\ claim_data[2].amount # None

\* the positions in txs of the claim transactions sent for entry k
ClaimTxs(k) ==
    {j \in 1..Len(txs) :
        /\ txs[j].k = k
        /\ txs[j].ixs[Len(txs[j].ixs)] \in {"claim_solo", "claim_pool"}}

\* C19: the amount of a Success row is the amount carried by the claim
\* instruction submitted for that entry: the explicit amount when one is
\* given, otherwise the balance fetched on the route used.
C19_SuccessAmountIsClaimed ==
    \A i \in 1..Len(claim_data) :
        claim_data[i].status = "Success" =>
            /\ ClaimTxs(claim_data[i].k) # {}
            /\ \A j \in ClaimTxs(claim_data[i].k) :
                 claim_data[i].amount = Some(txs[j].amount.v)

\* the lookups issued for entry k inside Miner::claim
ClaimFetches(k) ==
    {fetches[j].what : j \in {i \in 1..Len(fetches) : fetches[i].k = k}}
        \ {"proof"}

\* the number of claim instructions in a list of instructions
ClaimIxCount(kinds) ==
    Cardinality({j \in 1..Len(kinds) : kinds[j] \in {"claim_solo", "claim_pool"}})

\* what the route of Miner::claim may look up, submit and spend
RouteFetches(a) ==
    IF a.pool_url # None THEN {"pool_address", "pool_member"} ELSE {"solo_proof"}

\* C20: the single-identity claim routes by the pool URL alone.  With a pool
\* URL it looks up the pool address and the membership through the Pool and
\* submits one pool claim instruction under the pool ceiling, never a solo
\* one and never the solo proof lookup; without a pool URL it looks up the
\* solo proof and submits one solo claim instruction under the solo ceiling,
\* and never calls the Pool.
C20_RoutedByPoolUrl ==
    \A i \in 1..Len(calls) :
        LET k == calls[i]
            pool == args.pool_url # None
            sent == ClaimTxs(k)
            looked == ClaimFetches(k)
        IN  /\ looked \subseteq RouteFetches(args)
            /\ Cardinality(sent) <= 1
            /\ \A j \in 1..Len(txs) :
                 txs[j].k = k =>
                    /\ ClaimIxCount(txs[j].ixs) = (IF j \in sent THEN 1 ELSE 0)
                    /\ \A n \in 1..Len(txs[j].ixs) :
                         txs[j].ixs[n] # (IF pool THEN "claim_solo" ELSE "claim_pool")
            /\ \A j \in sent :
                 /\ txs[j].cu = (IF pool THEN POOL_CLAIM_CU ELSE SOLO_CLAIM_CU)
                 /\ looked = RouteFetches(args)
            /\ (\E r \in 1..Len(claim_data) :
                    claim_data[r].k = k /\ claim_data[r].status = "Success")
                 => Cardinality(sent) = 1

\* a finished pass on the pool route whose claim transaction was confirmed,
\* whatever the beneficiary and the amount
C20_Witness ==
    /\ cpc = "done"
    /\ args.pool_url # None
    /\ calls = <<1>>
    /\ ClaimTxs(1) # {}
    /\ \A j \in ClaimTxs(1) : txs[j].result = "sig"
    /\ Len(claim_data) = 1
    /\ claim_data[1].status = "Success"

\* the entries that have a line of their own or a row of the table in stdout
Reported ==
    {stdout[j].k : j \in {i \in 1..Len(stdout) : stdout[i].kind = "timed_out"}}
        \cup UNION {{stdout[j].rows[r].k : r \in 1..Len(stdout[j].rows)} :
                        j \in 1..Len(stdout)}

\* C21: every outcome is printed when it is recorded: at any point of the
\* pass, every entry that has an outcome has a line in the output.
C21_OutcomePrintedWhenRecorded ==
    \A i \in 1..Len(claim_data) : claim_data[i].k \in Reported

(***************************************************************************)
(* Claims about the artifacts of logs/ across passes (SpecSupervisor).     *)
(***************************************************************************)
\* C22: at every moment each running workload is the only writer of its log:
\* no two running workloads have the same log file as their output.
C22_OneWriterPerLog ==
    \A p, q \in PidPool :
        (IsWorkload(p) /\ IsWorkload(q) /\ procs[p].log = procs[q].log) => p = q

(***************************************************************************)
(* Launch passes alone, with the steps of a running pass taken fairly.     *)
(* Nothing is assumed of the workloads: they may run forever.              *)
(***************************************************************************)
SpecLaunchLive ==
    /\ InitSupervisor
    /\ [][NextLaunch]_vars
    /\ WF_vars(LaunchRead)
    /\ WF_vars(LaunchOne)
    /\ WF_vars(LaunchWriteList)

\* C23: the launch loop spawns one workload at a time, in batch order, and
\* never waits for one: no step of a pass ends or needs the end of a workload,
\* a pass that has started returns whatever the workloads do, and the
\* workloads it launched still run when it has returned.
C23_LaunchNeverWaits ==
    /\ [][mode = "launch" =>
            /\ \A p \in PidPool : IsWorkload(p) => procs'[p] = procs[p]
            /\ \/ spawned' = spawned
               \/ \E p \in PidPool :
                    /\ spawned' = spawned \cup {[idx |-> lidx, pid |-> p, pass |-> passes]}
                    /\ \A c \in spawned : c.idx < lidx
                    /\ lidx' = lidx + 1]_vars
    /\ (mode = "launch") ~> (mode = "idle")

\* a pass over two entries has returned and both workloads run
C23_Witness ==
    /\ mode = "idle"
    /\ spc = "launched"
    /\ Cardinality(spawned) = 2
    /\ \A c \in spawned : procs[c.pid] = Child(c.idx)

\* C24: when a terminate pass has reached its end, the stop marker holds one
\* record, that of this pass: its kill count (and its time).
C24_MarkerIsLastSweep ==
    TermReturned => stop_marker = File([count |-> killed_count, pass |-> passes])

\* C25: after a launch pass over a batch that was read and is not empty, the
\* process list holds the record lines of this pass and nothing else: it is
\* overwritten by each pass, and the records of an earlier pass are gone.
C25_ListIsLastLaunch ==
    (mode = "idle" /\ spc \in {"launched", "log_panicked", "list_panicked"}) =>
        process_list_file = File(ProcessListLines)

(***************************************************************************)
(* Claims about the check command (SpecCheck).                             *)
(***************************************************************************)
\* the check loop has gone past the first n entries
CheckedUpTo ==
    IF kpc = "loop" THEN kidx - 1
    ELSE IF kpc \in {"done", "notable"} THEN Len(check_keys)
    ELSE 0

\* C26: the check command has one row per decodable entry, in input order,
\* also for an entry whose proof fetch failed; the row of a fetched proof
\* shows "never mined" exactly when last_hash_at is 0, and its time otherwise.
C26_CheckRows ==
    /\ [i \in 1..Len(account_data) |-> account_data[i].k]
          = DecodableUpTo(check_keys, CheckedUpTo)
    /\ Len(check_fetches) = Len(account_data)
    /\ \A i \in 1..Len(account_data) :
         LET row == account_data[i]
             f == check_fetches[i]
         IN /\ f.k = row.k
            /\ f.got = None =>
                 /\ row.balance = None
                 /\ row.last_hash_at.kind = "unavailable"
            /\ f.got # None =>
                 /\ row.balance = Some(f.got[1].balance)
                 /\ row.last_hash_at.kind = "never" <=> f.got[1].last_hash_at = 0
                 /\ f.got[1].last_hash_at # 0 =>
                      row.last_hash_at = [kind |-> "time", t |-> f.got[1].last_hash_at]

\* a finished check of two entries: the proof of the first could not be
\* fetched, the proof of the second never mined
C26_Witness ==
    /\ kpc = "done"
    /\ Len(account_data) = 2
    /\ account_data[1].last_hash_at.kind = "unavailable"
    /\ account_data[2].last_hash_at.kind = "never"
    /\ account_data[1].k < account_data[2].k

(***************************************************************************)
(* Terminate passes over a logs/ directory as earlier runs and the         *)
(* operator may have left it: logs of several lines, stale or not, and an  *)
(* entry that no pass made.                                                *)
(***************************************************************************)
\* the logs miner_<i>.log in the directory
ScanLogIds == {1}
\* lines of a log
ScanLogLines == 2

\* the pids that a line of a log may carry and that may run
ScanPids == {2, 3}

ScanLines == [kind : {"plain"}, pid : {2}] \cup [kind : {"pid"}, pid : ScanPids]

ScanLogTexts == UNION {[1..n -> ScanLines] : n \in 0..ScanLogLines}

\* names that do not follow miner_*.log: no "_", another extension; and a
\* directory that does
ForeignEntries ==
    {DirEntry(<<"m", "i", "n", "e", "r">> \o <<".">> \o LOG_EXT, TRUE, <<l>>) :
        l \in [kind : {"pid"}, pid : ScanPids]}
    \cup {DirEntry(MINER_PREFIX \o <<"1", ".", "t", "x", "t">>, TRUE, <<l>>) :
        l \in [kind : {"pid"}, pid : ScanPids]}
    \cup {DirEntry(LogName(9), FALSE, <<>>)}

InitScan ==
    /\ mode = "idle"
    /\ spc = "none"
    \* one more pass can be started
    /\ passes = MaxPasses - 1
    /\ \E running \in SUBSET ScanPids :
         procs = [p \in PidPool |->
                    IF p \in running
                    THEN [cmd |-> "bitz", log |-> 1, pass |-> 0,
                          argv |-> ChildArgv(1, PlainLaunchArgs), runs |-> "mine"]
                    ELSE NoProc]
    /\ dir_exists = TRUE
    /\ \E texts \in [ScanLogIds -> ScanLogTexts] :
         logs = [i \in 1..MaxBatch |-> IF i \in ScanLogIds THEN File(texts[i]) ELSE NoFile]
    /\ process_list_file = File(<<1>>)
    /\ stop_marker = NoFile
    /\ foreign \in {NoFile} \cup {File(e) : e \in ForeignEntries}
    /\ largs = PlainLaunchArgs
    /\ lfile = "ok"
    /\ lkeys = 0
    /\ lidx = 0
    /\ spawned = {}
    /\ kill_all = FALSE
    /\ self = 0
    /\ process_list = <<>>
    /\ pids = <<>>
    /\ todo = {}
    /\ killed_count = 0
    /\ kills = <<>>
    /\ tracked_at_start = FALSE
    /\ CheckIdle
    /\ file = "ok"
    /\ private_keys = <<>>
    /\ args = [amount |-> None, to |-> None, pool_url |-> None]
    /\ cpc = "unused"
    /\ idx = 0
    /\ proof = 0
    /\ member = 0
    /\ ixs = <<>>
    /\ elapsed = 0
    /\ claim_data = <<>>
    /\ txs = <<>>
    /\ calls = <<>>
    /\ fetches = <<>>
    /\ stdout = <<>>

NextTerminate ==
    \/ StartTerminate \/ TermCheck \/ TermFind \/ TermKillNext \/ TermScanNext
    \/ TermFinish

SpecScan ==
    /\ InitScan
    /\ [][NextTerminate]_vars

\* the pid of the first line of a log that carries the marker, if any
FirstMarked(ls) ==
    LET marked == {j \in 1..Len(ls) : ls[j].kind = "pid"} IN
    IF marked = {} THEN None
    ELSE Some(ls[CHOOSE j \in marked : \A m \in marked : j <= m].pid)

ConfirmationLine(i, p) ==
    <<"zhang4", "hu4", " ", "#">> \o Digits(i)
        \o <<" ", "wa1", "kuang4", "jin4", "cheng2", "yi3", "qi3", "dong4", "FF0C">>
        \o PID_MARKER \o <<" ">> \o Digits(p)
        \o <<"FF0C", "ri4", "zhi4", "wen2", "jian4", ":", " ">>
        \o <<"l", "o", "g", "s", "/">> \o LogName(i)

\* C28: the confirmation line that a launch pass prints for a workload it
\* started, with the marker followed by the process id p, is parsed by the
\* scan of the terminate pass back to p.
C28_MarkerRoundTrip ==
    \A c \in spawned : MarkerPid(ConfirmationLine(c.idx, c.pid)) = Some(c.pid)

(***************************************************************************)
(* Claims about what a terminate pass kills (SpecSupervisor).              *)
(***************************************************************************)
\* C29: a registry-scoped pass kills only processes that a launch pass
\* started as workloads: a process that got the pid of a workload that has
\* exited is not killed.
C29_RegistryKillsOnlyWorkloads ==
    ~kill_all => \A i \in RealKills : kills[i].vlog > 0

\* C30: a terminate pass never runs a kill command for its own process, in
\* either mode, so no pass ends by its own kill before the stop marker.
C30_NeverKillsSelf ==
    /\ \A i \in 1..Len(kills) : kills[i].pid # self
    /\ spc # "killed_self"

(***************************************************************************)
(* A launch pass with its workloads from their main on (SpecSpawn).        *)
(***************************************************************************)
\* main of a workload: Commands::Collect(args) runs batch_collect when
\* sub_private_filepath is set, and a launch pass of the workload spawns in
\* its turn; otherwise it runs mine
WorkloadMain ==
    \E p \in PidPool :
        /\ IsWorkload(p)
        /\ procs[p].runs # "mine"
        /\ IF Dispatch(procs[p].argv) = "batch_collect"
           THEN \E q \in FreePids, i \in 1..lkeys :
                    /\ procs' = [procs EXCEPT ![p].runs = "batch_collect",
                                              ![q] = Child(i)]
                    /\ logs' = [logs EXCEPT ![i] = File(<<>>)]
                    /\ spawned' = spawned \cup {[idx |-> i, pid |-> q, pass |-> passes]}
           ELSE /\ procs' = [procs EXCEPT ![p].runs = "mine"]
                /\ UNCHANGED <<logs, spawned>>
        /\ UNCHANGED <<mode, spc, passes, dir_exists, process_list_file, lfile,
                       lkeys, lidx>>
        /\ UNCHANGED LaunchFrame

\* one invocation of `collect --sub-private <file>` in an empty directory,
\* with any of the optional settings
InitSpawn ==
    /\ largs \in LaunchArgsSpace
    /\ passes = MaxPasses - 1
    /\ mode = "idle"
    /\ spc = "none"
    /\ procs = [p \in PidPool |-> NoProc]
    /\ dir_exists = FALSE
    /\ logs = [i \in 1..MaxBatch |-> NoFile]
    /\ process_list_file = NoFile
    /\ stop_marker = NoFile
    /\ lfile = "ok"
    /\ lkeys = 0
    /\ lidx = 0
    /\ spawned = {}
    /\ kill_all = FALSE
    /\ self = 0
    /\ process_list = <<>>
    /\ pids = <<>>
    /\ todo = {}
    /\ killed_count = 0
    /\ kills = <<>>
    /\ tracked_at_start = FALSE
    /\ foreign = NoFile
    /\ CheckIdle
    /\ file = "ok"
    /\ private_keys = <<>>
    /\ args = [amount |-> None, to |-> None, pool_url |-> None]
    /\ cpc = "unused"
    /\ idx = 0
    /\ proof = 0
    /\ member = 0
    /\ ixs = <<>>
    /\ elapsed = 0
    /\ claim_data = <<>>
    /\ txs = <<>>
    /\ calls = <<>>
    /\ fetches = <<>>
    /\ stdout = <<>>

\* the pass and the start of its workloads; what a workload does later is
\* seen by no pass of this specification
NextSpawn ==
    StartLaunch \/ LaunchRead \/ LaunchOne \/ LaunchWriteList \/ WorkloadMain

SpecSpawn ==
    /\ InitSpawn
    /\ [][NextSpawn]_vars

\* C31: a workload that a launch pass started has the credential of its one
\* entry on its command line and no credential file, so its main runs the
\* mining workload and never a launch pass; the invocation over a batch of N
\* entries has created at most N processes.
C31_WorkloadsNeverLaunch ==
    /\ \A p \in PidPool :
         IsWorkload(p) =>
            /\ PrivateKey(procs[p].argv) = Some(KeyWord(procs[p].log))
            /\ SubPrivate(procs[p].argv) = None
            /\ procs[p].runs \in {"main", "mine"}
    /\ Cardinality(spawned) <= lkeys

\* a pass over more than one entry, with a pool, a fee payer and dynamic fees,
\* has ended; every entry has its workload, and each workload is mining
C31_Witness ==
    /\ mode = "idle"
    /\ spc = "launched"
    /\ lkeys > 1
    /\ Cardinality(spawned) = lkeys
    /\ \A c \in spawned : procs[c.pid].log = c.idx /\ procs[c.pid].runs = "mine"
    /\ largs.pool_url # None
    /\ largs.device_id # None
    /\ largs.fee_private_key # None
    /\ largs.dynamic_fee
    /\ largs.dynamic_fee_url # None
    /\ largs.verbose

(***************************************************************************)
(* A terminate pass in a directory whose process list may be gone          *)
(* (SpecStale).                                                            *)
(***************************************************************************)
\* logs/ as earlier runs left it: the logs, perhaps the marker of an earlier
\* terminate pass, and process_list.txt unless it has been removed
InitStale ==
    /\ mode = "idle"
    /\ spc = "none"
    \* one more pass can be started
    /\ passes = MaxPasses - 1
    /\ \E running \in SUBSET ScanPids :
         procs = [p \in PidPool |->
                    IF p \in running
                    THEN [cmd |-> "bitz", log |-> 1, pass |-> 0,
                          argv |-> ChildArgv(1, PlainLaunchArgs), runs |-> "mine"]
                    ELSE NoProc]
    /\ dir_exists = TRUE
    /\ \E texts \in [ScanLogIds -> ScanLogTexts] :
         logs = [i \in 1..MaxBatch |-> IF i \in ScanLogIds THEN File(texts[i]) ELSE NoFile]
    /\ process_list_file \in {NoFile, File(<<1>>)}
    /\ stop_marker \in {NoFile, File([count |-> 0, pass |-> 0])}
    /\ foreign \in {NoFile} \cup {File(e) : e \in ForeignEntries}
    /\ largs = PlainLaunchArgs
    /\ lfile = "ok"
    /\ lkeys = 0
    /\ lidx = 0
    /\ spawned = {}
    /\ kill_all = FALSE
    /\ self = 0
    /\ process_list = <<>>
    /\ pids = <<>>
    /\ todo = {}
    /\ killed_count = 0
    /\ kills = <<>>
    /\ tracked_at_start = FALSE
    /\ CheckIdle
    /\ file = "ok"
    /\ private_keys = <<>>
    /\ args = [amount |-> None, to |-> None, pool_url |-> None]
    /\ cpc = "unused"
    /\ idx = 0
    /\ proof = 0
    /\ member = 0
    /\ ixs = <<>>
    /\ elapsed = 0
    /\ claim_data = <<>>
    /\ txs = <<>>
    /\ calls = <<>>
    /\ fetches = <<>>
    /\ stdout = <<>>

SpecStale ==
    /\ InitStale
    /\ [][NextTerminate]_vars

\* C32: while process_list.txt does not exist, a terminate pass, with or
\* without --kill-all, returns from its first check: it runs no kill
\* command, ends no process but its own, and leaves logs/, the logs, the
\* stop marker and every other entry of logs/ as they were.
C32_NoListNoEffect ==
    /\ [](process_list_file = NoFile => kills = <<>> /\ killed_count = 0)
    /\ [][process_list_file = NoFile =>
            /\ UNCHANGED <<dir_exists, logs, process_list_file, stop_marker, foreign>>
            /\ kills' = <<>>
            /\ mode = "term" =>
                  /\ mode' = "idle"
                  /\ spc' = "nolist"
                  /\ \A p \in PidPool \ {self} : procs'[p] = procs[p]]_vars

\* a --kill-all pass has returned for want of process_list.txt, beside a
\* running workload whose pid is in its log and an older stop marker
C32_Witness ==
    /\ mode = "idle"
    /\ spc = "nolist"
    /\ process_list_file = NoFile
    /\ kill_all
    /\ stop_marker # NoFile
    /\ \E p \in PidPool :
         /\ IsWorkload(p)
         /\ \E j \in 1..Len(Content(logs[1])) :
              Content(logs[1])[j] = [kind |-> "pid", pid |-> p]
=============================================================================
